---- MODULE Spec2Model ----
(***************************************************************************)
(* Model of the emergency-management core of src/mine_core_system.py:     *)
(* AdvancedPhosphateMineSimulator (telemetry, anomalies, zone status),     *)
(* EnhancedClaudeAgent (risk analysis, protocol execution) and             *)
(* MineEmergencySystem (monitoring loop, alert buffer, control surface).   *)
(*                                                                         *)
(* Fixed-point units.  Sensor configuration is in thousandths (milli) of   *)
(* the sensor's unit, a computed sensor value in 1e-5 units, a reported    *)
(* value (round(value, 2)) in hundredths.  Factors are in percent, the     *)
(* production impact factor and the efficiency rate in 1e-4.  Weather      *)
(* quantities are in tenths.  Time is in tenths of a second.               *)
(***************************************************************************)
EXTENDS Integers, Sequences, FiniteSets, TLC

\* ------------------------------------------------------------------------
\* Static configuration (AdvancedPhosphateMineSimulator.__init__)
\* ------------------------------------------------------------------------

Cfg(t, z, lo, hi, crit) ==
    [type |-> t, zone |-> z, min |-> lo, max |-> hi, critical_threshold |-> crit]

sensors_config ==
    [s \in {"dust_extr_01", "dust_extr_02", "dust_trait_01", "dust_trait_02",
            "vibration_br_01", "vibration_br_02", "gas_nh3_01", "gas_so2_01",
            "gas_hf_01", "ph_bassin_01", "temp_four_01", "pressure_pipe_01",
            "level_bassin_01", "air_quality_01", "radiation_01",
            "water_flow_01", "turbidity_01"} |->
        CASE s = "dust_extr_01"     -> Cfg("dust", "Zone 1", 15000, 45000, 100000)
          [] s = "dust_extr_02"     -> Cfg("dust", "Zone 1", 20000, 50000, 100000)
          [] s = "dust_trait_01"    -> Cfg("dust", "Zone 2", 30000, 70000, 120000)
          [] s = "dust_trait_02"    -> Cfg("dust", "Zone 2", 25000, 65000, 120000)
          [] s = "vibration_br_01"  -> Cfg("vibration", "Zone 2", 1500, 4500, 7000)
          [] s = "vibration_br_02"  -> Cfg("vibration", "Zone 2", 1000, 3500, 6000)
          [] s = "gas_nh3_01"       -> Cfg("ammonia", "Zone 3", 2000, 15000, 50000)
          [] s = "gas_so2_01"       -> Cfg("sulfur_dioxide", "Zone 3", 1000, 8000, 20000)
          [] s = "gas_hf_01"        -> Cfg("hydrogen_fluoride", "Zone 3", 500, 3000, 10000)
          [] s = "ph_bassin_01"     -> Cfg("ph", "Zone 3", 6500, 8500, 5000)
          [] s = "temp_four_01"     -> Cfg("temperature", "Zone 4", 80000, 150000, 200000)
          [] s = "pressure_pipe_01" -> Cfg("pressure", "Zone 4", 2500, 5500, 8000)
          [] s = "level_bassin_01"  -> Cfg("level", "Zone 4", 3000, 7500, 9000)
          [] s = "air_quality_01"   -> Cfg("air_quality", "Zone 5", 50000, 150000, 300000)
          [] s = "radiation_01"     -> Cfg("radiation", "Zone 6", 100, 300, 1000)
          [] s = "water_flow_01"    -> Cfg("flow", "Zone 6", 150000, 300000, 50000)
          [] s = "turbidity_01"     -> Cfg("turbidity", "environnement", 5000, 25000, 100000)]

Sensors == DOMAIN sensors_config

\* personnel_count of every zone of the roster
personnel_data ==
    [z \in {"Zone 1", "Zone 2", "Zone 3", "Zone 4", "Zone 5", "Zone 6"} |->
        CASE z = "Zone 1" -> 12
          [] z = "Zone 2" -> 18
          [] z = "Zone 3" -> 8
          [] z = "Zone 4" -> 6
          [] z = "Zone 5" -> 4
          [] z = "Zone 6" -> 3]

RosterZones == DOMAIN personnel_data

\* ------------------------------------------------------------------------
\* Arithmetic helpers
\* ------------------------------------------------------------------------

Max2(a, b) == IF a >= b THEN a ELSE b

Min2(a, b) == IF a <= b THEN a ELSE b

\* round(value, 2): a value in 1e-5 units to hundredths, ties to even
Round2(v) ==
    LET q == v \div 1000
        r == v % 1000
    IN  IF r > 500 \/ (r = 500 /\ q % 2 = 1) THEN q + 1 ELSE q

RECURSIVE Pow(_, _)
Pow(b, n) == IF n = 0 THEN 1 ELSE b * Pow(b, n - 1)

\* ------------------------------------------------------------------------
\* Bounds of the model and sampled inputs
\* ------------------------------------------------------------------------

\* ticks the monitoring loop may start
MaxTicks == 2

\* entries the active-anomaly dictionary may hold
MaxAnomalies == 1

\* alerts that may be appended during one behaviour
MaxNewAlerts == 3

\* steps of a plan handed to the run loop of execute_advanced_protocol
MaxSteps == 4

\* iterations of the sampling thread of the dashboard
MaxSamples == 2

\* Outcomes of the random draws of one sampling call: `day' and `hour' are
\* the sines of the diurnal and hourly cycles (percent), t, h, w the uniform
\* perturbations of temperature, humidity and wind (tenths), q the position
\* of random.uniform(min, max) in the normal range (1e-4), r the trend
\* coefficient random.uniform(-0.1, 0.1) (percent) and off the sensor whose
\* random.random() < 0.001 fault draw succeeds ("none": no sensor).
Draws ==
    { [day |-> -100, hour |-> -100, t |-> -50, h |-> -200, w |-> -20,
       q |-> 0, r |-> -10, off |-> "none"],
      [day |-> 100, hour |-> 100, t |-> 50, h |-> 200, w |-> 40,
       q |-> 10000, r |-> 10, off |-> "none"],
      [day |-> 100, hour |-> 100, t |-> 0, h |-> 0, w |-> 0,
       q |-> 9992, r |-> 0, off |-> "none"],
      [day |-> 0, hour |-> 0, t |-> 0, h |-> 0, w |-> 0,
       q |-> 2000, r |-> 0, off |-> "air_quality_01"] }

\* the draws of the specifications that vary the control flow of the loop
\* and not the sampled values
LoopDraws == {d \in Draws : d.q = 10000}

\* ------------------------------------------------------------------------
\* AdvancedPhosphateMineSimulator: weather and production
\* ------------------------------------------------------------------------

\* WeatherCondition(25, 65, 3.2, 180, 1013, 10, 0); the fields no modelled
\* code reads (wind_direction, pressure, precipitation) are left out
InitialWeather ==
    [temperature |-> 250, humidity |-> 650, wind_speed |-> 32, visibility |-> 100]

\* ProductionMetrics(150, 28.5, 2400, 45, 12, 0.85): hourly_production and
\* efficiency_rate in 1e-4
InitialProduction == [hourly_production |-> 1500000, efficiency_rate |-> 8500]

\* update_weather: the weather after the update
update_weather(w, d) ==
    [w EXCEPT !.temperature = 250 + (100 * d.day) \div 100 + d.t,
              !.humidity = Max2(200, Min2(950, 650 + d.h)),
              !.wind_speed = Max2(0, 32 + d.w)]

\* update_weather: its return value dust_factor (percent)
dust_factor(w) ==
    LET f == IF w.wind_speed > 80 THEN 150 ELSE 100
    IN  IF w.humidity < 300 THEN (f * 130) \div 100 ELSE f

\* number of active anomalies of a severity
SeverityCount(anoms, sev) == Cardinality({a \in DOMAIN anoms : anoms[a].severity = sev})

\* an impact factor that subtracts 0.3 and 0.1 per anomaly instead of
\* multiplying
impact_factor_additive(anoms, w) ==
    LET c  == SeverityCount(anoms, "critical")
        wn == SeverityCount(anoms, "warning")
        wf == IF w.wind_speed > 120 THEN 8 ELSE 10
        vf == IF w.visibility < 20 THEN 6 ELSE 10
    IN  (Max2(0, 10000 - 3000 * c - 1000 * wn) * wf * vf) \div 100

\* calculate_production_impact: impact_factor (1e-4), the product of 0.7
\* per critical anomaly, 0.9 per warning anomaly, 0.8 for wind above 12 and
\* 0.6 for visibility below 2
impact_factor(anoms, w) ==
    LET c  == SeverityCount(anoms, "critical")
        wn == SeverityCount(anoms, "warning")
        wf == IF w.wind_speed > 120 THEN 8 ELSE 10
        vf == IF w.visibility < 20 THEN 6 ELSE 10
    IN  (10000 * Pow(7, c) * Pow(9, wn) * wf * vf) \div (Pow(10, c + wn) * 100)

\* calculate_production_impact: the production metrics it stores
calculate_production_impact(anoms, w) ==
    LET f == impact_factor(anoms, w)
    IN  [hourly_production |-> 150 * f,
         efficiency_rate |-> Min2(10000, (f * 85) \div 100)]

\* ------------------------------------------------------------------------
\* AdvancedPhosphateMineSimulator: sensor readings
\* ------------------------------------------------------------------------

\* time_factor = 1 + 0.2 * sin(...) (percent)
time_factor(d) == 100 + (20 * d.hour) \div 100

\* random.uniform(min_val, max_val) (milli)
base_value(s, d) ==
    sensors_config[s].min +
        ((sensors_config[s].max - sensors_config[s].min) * d.q) \div 10000

\* status of a computed value (1e-5) against the sensor's thresholds
threshold_status(s, value) ==
    IF value >= sensors_config[s].critical_threshold * 100 THEN "critical"
    ELSE IF value >= sensors_config[s].max * 85 THEN "warning"
    ELSE "normal"

\* _generate_optimized_reading: base (milli), weather_factor and time factor
\* tf (percent), production_factor pf (1e-4)
generate_optimized_reading(s, base, weather_factor, pf, tf) ==
    LET ty == sensors_config[s].type
        v  == IF ty = "dust" THEN base * ((weather_factor * tf) \div 100)
              ELSE IF ty \in {"vibration", "noise"} THEN ((base * pf) \div 10000) * tf
              ELSE base * tf
        value == Max2(0, v)
    IN  [sensor_id |-> s, value |-> Round2(value), status |-> threshold_status(s, value)]

\* generate_realistic_reading: the reading it returns and appends to the
\* sensor's history; w is the weather in force (already updated when the
\* sensor is a dust sensor), eff the efficiency rate (1e-4), last the value
\* of the newest history entry (hundredths, 0 when the history is empty),
\* r the trend coefficient (percent)
generate_realistic_reading(s, base, w, eff, tf, last, r, offline) ==
    LET ty == sensors_config[s].type
        trend == r * last * 10
        v  == IF ty = "dust" THEN base * ((dust_factor(w) * tf) \div 100) + trend
              ELSE IF ty \in {"vibration", "noise"} THEN ((base * eff) \div 10000) * tf + trend
              ELSE IF ty = "temperature" THEN base * 100 + w.temperature * 1000 + trend
              ELSE base * tf + trend
        value == Max2(0, v)
    IN  IF offline
        THEN [sensor_id |-> s, value |-> 0, status |-> "offline"]
        ELSE [sensor_id |-> s, value |-> Round2(value), status |-> threshold_status(s, value)]

\* an append that never evicts: a list in place of the bounded deque
UnboundedAppend(q, x, cap) == Append(q, x)

\* deque(maxlen=cap).append
DequeAppend(q, x, cap) ==
    IF Len(q) >= cap THEN Append(Tail(q), x) ELSE Append(q, x)

\* capacity of every sensor history
HistoryCapacity == 100

\* decimal numeral of a natural number, most significant digit first
RECURSIVE Digits(_)
Digits(n) == IF n < 10 THEN <<n>> ELSE Append(Digits(n \div 10), n % 10)

\* f"{anomaly_type}_{int(time.time())}": the key of an anomaly; now is in
\* tenths of a second
anomaly_id(anomaly_type, now) == <<anomaly_type, Digits(now \div 10)>>

\* a sensor id read as a key of that form: the text before the last
\* underscore and the digits after it
sensor_key(s) ==
    CASE s = "dust_extr_01"     -> <<"dust_extr", <<0, 1>> >>
      [] s = "dust_extr_02"     -> <<"dust_extr", <<0, 2>> >>
      [] s = "dust_trait_01"    -> <<"dust_trait", <<0, 1>> >>
      [] s = "dust_trait_02"    -> <<"dust_trait", <<0, 2>> >>
      [] s = "vibration_br_01"  -> <<"vibration_br", <<0, 1>> >>
      [] s = "vibration_br_02"  -> <<"vibration_br", <<0, 2>> >>
      [] s = "gas_nh3_01"       -> <<"gas_nh3", <<0, 1>> >>
      [] s = "gas_so2_01"       -> <<"gas_so2", <<0, 1>> >>
      [] s = "gas_hf_01"        -> <<"gas_hf", <<0, 1>> >>
      [] s = "ph_bassin_01"     -> <<"ph_bassin", <<0, 1>> >>
      [] s = "temp_four_01"     -> <<"temp_four", <<0, 1>> >>
      [] s = "pressure_pipe_01" -> <<"pressure_pipe", <<0, 1>> >>
      [] s = "level_bassin_01"  -> <<"level_bassin", <<0, 1>> >>
      [] s = "air_quality_01"   -> <<"air_quality", <<0, 1>> >>
      [] s = "radiation_01"     -> <<"radiation", <<0, 1>> >>
      [] s = "water_flow_01"    -> <<"water_flow", <<0, 1>> >>
      [] s = "turbidity_01"     -> <<"turbidity", <<0, 1>> >>

\* get_all_sensor_readings: the batch.  A sensor whose id is a key of
\* active_anomalies is handed to _generate_anomaly_reading, a method the
\* class does not define: the reading is marked "undefined" and the call
\* raises AttributeError.
get_all_sensor_readings(anoms, w, d) ==
    LET w1 == update_weather(w, d)
        pf == impact_factor(anoms, w1)
    IN  [s \in Sensors |->
            IF sensor_key(s) \in DOMAIN anoms
            THEN [sensor_id |-> s, value |-> 0, status |-> "undefined"]
            ELSE generate_optimized_reading(s, base_value(s, d), dust_factor(w1), pf,
                                            time_factor(d))]

\* the sensors of a zone
zone_sensors(z) == {s \in Sensors : sensors_config[s].zone = z}

\* get_zone_status: the fresh reading it generates for a sensor of a roster
\* zone; w1 is the weather after the update made for the dust sensors
zone_reading(s, hist, w1, prod, d) ==
    generate_realistic_reading(s, base_value(s, d), w1, prod.efficiency_rate,
                               time_factor(d),
                               IF Len(hist[s]) > 0 THEN hist[s][Len(hist[s])].value ELSE 0,
                               d.r, d.off = s)

\* overall status of a zone from the statuses of a set of readings
overall_status(statuses) ==
    IF "critical" \in statuses THEN "critical"
    ELSE IF "warning" \in statuses THEN "warning"
    ELSE IF "offline" \in statuses THEN "degraded"
    ELSE "normal"

\* get_zone_status: the map it returns, one entry per roster zone
get_zone_status(anoms, hist, w1, prod, d) ==
    [z \in RosterZones |->
        [status |-> overall_status({zone_reading(s, hist, w1, prod, d).status :
                                        s \in zone_sensors(z)}),
         personnel_count |-> personnel_data[z],
         sensor_count |-> Cardinality(zone_sensors(z)),
         active_anomalies |->
            Cardinality({a \in DOMAIN anoms :
                            \E s \in Sensors : sensors_config[s].zone = z})]]

\* get_zone_status: the sensor histories after the call
zone_history(hist, w1, prod, d) ==
    [s \in Sensors |->
        IF sensors_config[s].zone \in RosterZones
        THEN DequeAppend(hist[s], zone_reading(s, hist, w1, prod, d), HistoryCapacity)
        ELSE hist[s]]

\* simulate_complex_anomaly: the sensors an anomaly of a type forces to
\* CRITICAL
anomaly_sensors(anomaly_type) ==
    CASE anomaly_type = "dust_storm_impact" ->
             {s \in Sensors : sensors_config[s].type = "dust"} \cup {"air_quality_01"}
      [] anomaly_type = "chemical_leak_cascade" ->
             {"gas_nh3_01", "gas_so2_01", "gas_hf_01", "ph_bassin_01"}
      [] anomaly_type = "equipment_failure_chain" ->
             {"vibration_br_01", "vibration_br_02", "temp_four_01", "pressure_pipe_01"}
      [] OTHER -> {}

\* the zones of those sensors
anomaly_zones(anomaly_type) == {sensors_config[s].zone : s \in anomaly_sensors(anomaly_type)}

\* trigger_anomaly: the active-anomaly dictionary after the call; born is
\* the number of ticks started so far (history variable of the anomaly)
trigger_anomaly(anoms, anomaly_type, duration, severity, now, born) ==
    LET id == anomaly_id(anomaly_type, now)
    IN  [a \in DOMAIN anoms \cup {id} |->
            IF a = id
            THEN [type |-> anomaly_type, duration |-> duration,
                  severity |-> severity, born |-> born]
            ELSE anoms[a]]

\* ------------------------------------------------------------------------
\* EnhancedClaudeAgent: risk analysis
\* ------------------------------------------------------------------------

\* protocol_recommendation.protocol_needed absent or null
NoProtocol == "none"

\* protocol_recommendation.protocol_needed given as a JSON array or object: a
\* non-empty list or dict, true in a condition and unhashable
UnhashableProtocol == "[list]"

\* What the analysis collaborator may do.  kind "raise": the call raises;
\* "invalid_json": the text is not JSON; "not_object": JSON that is no
\* object; "bad_shape": a JSON object whose risk_assessment is no object,
\* so that the assessment holds no level and no score ("absent", -1);
\* "ok": an object of the expected shape, with its current level, its
\* confidence score (percent), the recommended protocol, the number of
\* predictive alerts of probability above 0.7 and the number of
\* correlations whose risk amplification mentions "eleve"; affected_zones
\* is zone_analysis.affected_zones, empty unless a response set fills it.
Resp(k, lvl, conf, proto, pred, corr) ==
    [kind |-> k, current_level |-> lvl, confidence_score |-> conf,
     protocol_needed |-> proto, predictive |-> pred, correlations |-> corr,
     affected_zones |-> {}]

Responses ==
    { Resp("raise", "UNKNOWN", 0, NoProtocol, 0, 0),
      Resp("invalid_json", "UNKNOWN", 0, NoProtocol, 0, 0),
      Resp("not_object", "UNKNOWN", 0, NoProtocol, 0, 0),
      Resp("bad_shape", "absent", -1, NoProtocol, 0, 0),
      Resp("ok", "NORMAL", 95, NoProtocol, 0, 0),
      Resp("ok", "WARNING", 80, "equipment_cascade_failure", 1, 0),
      Resp("ok", "CRITICAL", 50, NoProtocol, 0, 1),
      Resp("ok", "EMERGENCY", 90, NoProtocol, 0, 0),
      Resp("ok", "EMERGENCY", 90, "chemical_cascade_emergency", 0, 0),
      Resp("ok", "EMERGENCY", 50, "unknown_protocol", 0, 0),
      Resp("ok", "EMERGENCY", 90, UnhashableProtocol, 0, 0) }

\* the outcomes that make the tick append alerts without running a catalog
\* protocol
AlertResponses ==
    {r \in Responses :
        /\ r.kind = "ok"
        /\ r.predictive + r.correlations > 0 \/ r.protocol_needed = "unknown_protocol"}

\* one outcome: a well-shaped assessment of level NORMAL
NormalResponses == {r \in Responses : r.kind = "ok" /\ r.current_level = "NORMAL"}

\* the assessment returned when the try block of analyze_comprehensive_data
\* fails
DegradedAnalysis ==
    [shape |-> "degraded", current_level |-> "UNKNOWN", confidence_score |-> 0,
     protocol_needed |-> NoProtocol, predictive |-> 0, correlations |-> 0,
     affected_zones |-> {}]

\* no assessment (outside the part of a tick that holds one)
NoAnalysis ==
    [shape |-> "none", current_level |-> "UNKNOWN", confidence_score |-> 0,
     protocol_needed |-> NoProtocol, predictive |-> 0, correlations |-> 0,
     affected_zones |-> {}]

\* current_analysis set by _initialize_data
InitialAnalysis ==
    [shape |-> "ok", current_level |-> "NORMAL", confidence_score |-> 95,
     protocol_needed |-> NoProtocol, predictive |-> 0, correlations |-> 0,
     affected_zones |-> {}]

\* the try block of analyze_comprehensive_data succeeds: the call returned
\* and json.loads gave an object that accepts the metadata keys
analysis_parsed(resp) == resp.kind \in {"ok", "bad_shape"}

\* analyze_comprehensive_data: the value returned for a collaborator outcome
analyze_result(resp) ==
    IF analysis_parsed(resp)
    THEN [shape |-> resp.kind, current_level |-> resp.current_level,
          confidence_score |-> resp.confidence_score,
          protocol_needed |-> resp.protocol_needed,
          predictive |-> resp.predictive, correlations |-> resp.correlations,
          affected_zones |-> resp.affected_zones]
    ELSE DegradedAnalysis

\* capacity of context_memory
MemoryCapacity == 20

\* analyze_comprehensive_data: context_memory after the call
analyze_memory(mem, resp) ==
    IF analysis_parsed(resp)
    THEN DequeAppend(mem, [shape |-> resp.kind, current_level |-> resp.current_level],
                     MemoryCapacity)
    ELSE mem

\* the last n entries of a sequence (list(q)[-n:])
LastN(q, n) == SubSeq(q, Max2(1, Len(q) - n + 1), Len(q))

\* _get_enhanced_context raises: one of the five newest entries holds an
\* analysis whose risk_assessment has no get method
enhanced_context_raises(mem) ==
    \E i \in 1..Len(LastN(mem, 5)) : LastN(mem, 5)[i].shape = "bad_shape"

\* ------------------------------------------------------------------------
\* EnhancedClaudeAgent: emergency protocols
\* ------------------------------------------------------------------------

\* required_actions of every catalog protocol, each action by the keyword
\* _adapt_protocol_to_context finds in its lower-cased text
emergency_protocols ==
    [p \in {"dust_storm_emergency", "chemical_cascade_emergency",
            "equipment_cascade_failure", "environmental_contamination"} |->
        CASE p = "dust_storm_emergency" ->
                <<"other", "other", "other", "other", "other", "other">>
          [] p = "chemical_cascade_emergency" ->
                <<"isolation", "evacuation", "other", "other", "other", "other", "other">>
          [] p = "equipment_cascade_failure" ->
                <<"other", "isolation", "other", "other", "other", "other">>
          [] p = "environmental_contamination" ->
                <<"other", "other", "other", "other", "other", "other">>]

\* one adapted step
Step(k, time, personnel, equipment, prob, cont) ==
    [action |-> k, estimated_time |-> time, personnel_needed |-> personnel,
     equipment |-> equipment, success_probability |-> prob, contingency |-> cont]

\* _adapt_protocol_to_context: the step derived from one required action;
\* wind in tenths, headcount the personnel of the context's affected_zones,
\* ncrit the number of critical sensors of the context
adapt_action(k, wind, headcount, ncrit) ==
    LET base == Step(k, 30, 2, 0, 95, FALSE)
        s1 == IF k = "evacuation"
              THEN [base EXCEPT !.estimated_time = IF wind > 100 THEN 45 ELSE 30,
                                !.personnel_needed = Max2(3, headcount \div 4)]
              ELSE IF k = "ventilation"
              THEN IF wind < 20
                   THEN [base EXCEPT !.estimated_time = 60, !.equipment = 1]
                   ELSE base
              ELSE IF k = "isolation"
              THEN IF ncrit > 3
                   THEN [base EXCEPT !.estimated_time = 90, !.personnel_needed = 4]
                   ELSE base
              ELSE base
    IN  [s1 EXCEPT !.contingency = (s1.success_probability < 90)]

\* number of sensors whose reading in the context is critical
critical_count(batch) == Cardinality({s \in DOMAIN batch : batch[s].status = "critical"})

\* _adapt_protocol_to_context: context_data holds no "affected_zones" key,
\* so the headcount summed over context.get("affected_zones", []) is 0
adapt_protocol_to_context(p, w, batch) ==
    [i \in 1..Len(emergency_protocols[p]) |->
        adapt_action(emergency_protocols[p][i], w.wind_speed, 0, critical_count(batch))]

\* asyncio.sleep(min(execution_time / 30, 2)) in tenths of a second
step_delay(st) == Min2((st.estimated_time * 10) \div 30, 20)

\* outcomes of random.random() (percent of the unit interval)
RandomSamples == {0, 99}

\* the comparison of the success draw turned round
step_succeeds_reversed(u, p) == u > p

\* success = random.random() < success_probability
step_succeeds(u, p) == u < p

\* the log entry of step i
log_entry(i, st, success) ==
    [step |-> i, contingency |-> FALSE, action |-> st.action,
     status |-> IF success THEN "completed" ELSE "failed"]

\* a contingency that reports nothing
execute_contingency_silent(st) == <<>>

\* _execute_contingency: the log it returns
execute_contingency(st) ==
    << [step |-> 0, contingency |-> TRUE, action |-> st.action, status |-> "completed"] >>

\* number of log entries with status completed
completed_count(log) == Cardinality({i \in 1..Len(log) : log[i].status = "completed"})

\* intervention_record["success_rate"] > 0.8
rate_above_threshold(log) == completed_count(log) * 10 > 8 * Len(log)

\* the waits of the loop: the sleep of the cycle, the delay of a protocol
\* step, the backoff of the except clause
Waits == {"sleep", "exec_step", "backoff"}

\* stop_monitoring was not called while the loop was running
NoStop == [wait |-> "none", at |-> 0, steps |-> 0]

\* stop_monitoring called while the loop is at position p
stop_at(p, at, log) ==
    [wait |-> IF p \in Waits THEN p ELSE "none", at |-> at, steps |-> Len(log)]

\* nothing appended or published yet; tick 0 is the time before the first tick
NoOrder == [alerts |-> <<>>, published |-> 0, records |-> <<>>]

\* n alerts appended to the buffer during tick k
order_alerts(o, k, n) == [o EXCEPT !.alerts = @ \o [i \in 1..n |-> k]]

\* an assessment that is used for alerts but never stored
publish_never(o, k) == o

\* self.current_analysis = analysis, during tick k
publish(o, k) == [o EXCEPT !.published = k]

\* one intervention record appended during tick k
order_record(o, k) == [o EXCEPT !.records = Append(@, k)]

\* ------------------------------------------------------------------------
\* State
\* ------------------------------------------------------------------------

VARIABLES
    pc,                  \* position of the monitoring loop
    monitoring_active,   \* MineEmergencySystem.monitoring_active
    system_status,       \* MineEmergencySystem.system_status
    db_manager,          \* the system object has a db_manager attribute
    now,                 \* wall clock, tenths of a second
    ticks,               \* ticks started so far
    weather,             \* data_simulator.weather
    production,          \* data_simulator.production
    active_anomalies,    \* data_simulator.active_anomalies
    sensor_history,      \* data_simulator.sensor_history
    sensor_readings,     \* the tick's batch (local of the loop)
    zone_status,         \* the tick's zone status (local of the loop)
    analysis,            \* the tick's assessment (local of the loop)
    cycle_start,         \* the tick's cycle_start (local of the loop)
    context_memory,      \* ai_agent.context_memory
    active_protocols,    \* ai_agent.active_protocols
    successful_interventions, \* ai_agent.learning_data["successful_interventions"]
    adapted_actions,     \* execute_advanced_protocol: adapted_actions
    execution_log,       \* execute_advanced_protocol: execution_log
    exec_i,              \* execute_advanced_protocol: index of the step in progress
    execution_result,    \* what execute_advanced_protocol returned
    current_analysis,    \* MineEmergencySystem.current_analysis
    stats,               \* MineEmergencySystem.stats
    alerts_queue,        \* MineEmergencySystem.alerts_queue
    alert_log,           \* history variable: every alert ever appended, in order
    new_alerts,          \* history variable: alerts appended in this behaviour
    collab,              \* history variable: the collaborator's outcome in this tick
    assess_raised,       \* history variable: analyze_comprehensive_data raised
    tick_invoked,        \* history variable: executor invocations in this tick
    tick_protocol_alerts, \* history variable: PROTOCOL_EXECUTED alerts of this tick
    order,               \* history variable: the tick each alert, the published
                         \* assessment and each intervention record come from
    stop_signal,         \* history variable: the wait the loop was in, the time
                         \* and the log length when stop_monitoring took effect
    parked,              \* the locals of a second invocation of the loop, suspended
    zone_calls,          \* results of get_zone_status called directly, in a row
    query_result,        \* what the last get_alerts_history call returned
    data_queue,          \* StreamlitMineInterface.data_queue: the snapshots put
    sampled_under,       \* history variable: for each snapshot of data_queue, the
                         \* weather and production its readings were generated under
    last_call,           \* history variable: the last trigger call and its arguments
    interface_active,    \* StreamlitMineInterface.monitoring_active
    monitoring_threads   \* the threads started on _monitoring_loop, each with its
                         \* position, its iteration count and its data_snapshot

simVars == <<weather, production, active_anomalies, sensor_history>>
tickVars == <<sensor_readings, zone_status, analysis, cycle_start>>
agentVars == <<context_memory, active_protocols, successful_interventions>>
execVars == <<adapted_actions, execution_log, exec_i, execution_result>>
alertVars == <<alerts_queue, alert_log, new_alerts>>
ghostVars == <<collab, assess_raised, tick_invoked, tick_protocol_alerts, order,
               stop_signal>>
loopVars == <<pc, monitoring_active, system_status>>
threadVars == <<interface_active, monitoring_threads>>
outerVars == <<db_manager, parked, zone_calls, query_result, data_queue, sampled_under,
               threadVars,
               last_call>>
callVars == <<db_manager, parked, zone_calls, query_result, data_queue, sampled_under,
              threadVars>>

vars == <<pc, monitoring_active, system_status, db_manager, now, ticks,
          weather, production, active_anomalies, sensor_history,
          sensor_readings, zone_status, analysis, cycle_start,
          context_memory, active_protocols, successful_interventions,
          adapted_actions, execution_log, exec_i, execution_result,
          current_analysis, stats, alerts_queue, alert_log, new_alerts,
          collab, assess_raised, tick_invoked, tick_protocol_alerts, order, stop_signal,
          parked, zone_calls, query_result, data_queue, sampled_under, threadVars,
          last_call>>

\* every variable but last_call
calledVars == <<loopVars, callVars, now, ticks, simVars, tickVars, agentVars, execVars,
                current_analysis, stats, alertVars, ghostVars>>

\* no trigger call was made yet
NoCall == [op |-> "none", name |-> "none", label |-> "none", duration |-> 0, flip |-> FALSE]

\* a trigger call and its arguments; flip alternates from one call to the
\* next
Call(op, name, label, duration, last) ==
    [op |-> op, name |-> name, label |-> label, duration |-> duration, flip |-> ~last.flip]

\* the locals of one invocation of start_advanced_monitoring and of the
\* execute_advanced_protocol call it is in
LoopLocals(p, batch, zones, a, start, plan, log, i, result) ==
    [pc |-> p, sensor_readings |-> batch, zone_status |-> zones, analysis |-> a,
     cycle_start |-> start, adapted_actions |-> plan, execution_log |-> log,
     exec_i |-> i, execution_result |-> result]

\* no second invocation
NoLoop == LoopLocals("none", <<>>, <<>>, NoAnalysis, 0, <<>>, <<>>, 0, "none")

\* capacity of alerts_queue
AlertCapacity == 50

\* an alert: its type, its timestamp and its rank among all alerts appended
Alert(type, at, rank) == [type |-> type, timestamp |-> at, id |-> rank]

\* alerts_queue.append, n times, of alerts of one type
RECURSIVE append_alerts(_, _, _, _, _)
append_alerts(q, type, at, rank, n) ==
    IF n = 0 THEN q
    ELSE append_alerts(DequeAppend(q, Alert(type, at, rank), AlertCapacity),
                       type, at, rank + 1, n - 1)

\* the history of all appended alerts, extended the same way
RECURSIVE log_alerts(_, _, _, _)
log_alerts(lg, type, at, n) ==
    IF n = 0 THEN lg
    ELSE log_alerts(Append(lg, Alert(type, at, Len(lg) + 1)), type, at, n - 1)

\* get_alerts_history was not called yet
NoQuery == [called |-> FALSE, hours |-> 0, alerts |-> <<>>]

\* the alerts of the buffer in their order, without sorting them
get_alerts_history_unsorted(q, at, hours) ==
    SelectSeq(q, LAMBDA a : a.timestamp >= at - hours * 36000)

\* get_alerts_history(hours): the alerts of the buffer not older than the
\* cutoff, sorted by timestamp with reverse=True (a stable sort: alerts of
\* one timestamp keep their order); `at' is the time of the call in tenths of
\* a second
get_alerts_history(q, at, hours) ==
    LET f == SelectSeq(q, LAMBDA a : a.timestamp >= at - hours * 36000)
        n == Len(f)
        place == [i \in 1..n |->
                     Cardinality({j \in 1..n :
                                     \/ f[j].timestamp > f[i].timestamp
                                     \/ f[j].timestamp = f[i].timestamp /\ j <= i})]
    IN  [k \in 1..n |-> f[CHOOSE i \in 1..n : place[i] = k]]

\* the state _initialize_data leaves: every sensor history holds one reading
\* of a batch, no alert, no anomaly
InitSimulator(draws) ==
    \E d \in draws :
        /\ weather = update_weather(InitialWeather, d)
        /\ production = calculate_production_impact(<<>>, weather)
        /\ sensor_history =
              [s \in Sensors |-> << get_all_sensor_readings(<<>>, InitialWeather, d)[s] >>]

\* MineEmergencySystem.__init__ and _initialize_data, but for the alert
\* buffer, the anomalies and the position of the loop
InitCommon(draws) ==
    /\ monitoring_active = TRUE
    /\ system_status = "ACTIVE"
    /\ db_manager \in BOOLEAN
    /\ now = 0
    /\ ticks = 0
    /\ InitSimulator(draws)
    /\ sensor_readings = <<>>
    /\ zone_status = <<>>
    /\ analysis = NoAnalysis
    /\ cycle_start = 0
    /\ context_memory = <<>>
    /\ active_protocols = <<>>
    /\ successful_interventions = <<>>
    /\ current_analysis = InitialAnalysis
    /\ stats = [total_analyses |-> 0, protocols_executed |-> 0, false_alarms_prevented |-> 0]
    /\ new_alerts = 0
    /\ collab = "none"
    /\ assess_raised = FALSE
    /\ tick_invoked = 0
    /\ tick_protocol_alerts = 0
    /\ stop_signal = NoStop
    /\ parked = NoLoop
    /\ zone_calls = <<>>
    /\ query_result = NoQuery
    /\ data_queue = <<>>
    /\ sampled_under = <<>>
    /\ interface_active = FALSE
    /\ monitoring_threads = <<>>
    /\ last_call = NoCall

\* no protocol run in progress
InitIdle ==
    /\ pc = "idle"
    /\ adapted_actions = <<>>
    /\ execution_log = <<>>
    /\ exec_i = 0
    /\ execution_result = "none"

\* MineEmergencySystem.__init__: the loop has not been started
InitSystem(draws) ==
    /\ InitCommon(draws)
    /\ InitIdle
    /\ active_anomalies = <<>>
    /\ alerts_queue = <<>>
    /\ alert_log = <<>>
    /\ order = NoOrder

Init == InitSystem(LoopDraws)

\* ------------------------------------------------------------------------
\* MineEmergencySystem: control surface
\* ------------------------------------------------------------------------

\* start_advanced_monitoring up to the first test of the while loop
StartMonitoring ==
    /\ pc \in {"idle", "done"}
    /\ monitoring_active' = TRUE
    /\ system_status' = "ACTIVE"
    /\ pc' = "check"
    /\ UNCHANGED <<outerVars, now, ticks, simVars, tickVars, agentVars, execVars,
                   current_analysis, stats, alertVars, ghostVars>>

\* stop_monitoring, called from outside the loop at any point; signal is what
\* the history keeps of the call
Stop(signal) ==
    /\ monitoring_active' = FALSE
    /\ system_status' = "STOPPED"
    /\ stop_signal' = signal
    /\ UNCHANGED <<pc, outerVars, now, ticks, simVars, tickVars, agentVars, execVars,
                   current_analysis, stats, alertVars, collab, assess_raised, tick_invoked,
                   tick_protocol_alerts, order>>

\* stop_monitoring, its position in the run not kept
StopMonitoring == Stop(stop_signal)

\* stop_monitoring, with the position of the loop at the first call that
\* finds the loop running
StopMonitoringAt ==
    Stop(IF monitoring_active THEN stop_at(pc, now, execution_log) ELSE stop_signal)

\* scenario names trigger_advanced_scenario knows, with their anomaly types
scenarios ==
    [n \in {"dust_storm", "chemical_cascade", "equipment_chain"} |->
        CASE n = "dust_storm" -> "dust_storm_impact"
          [] n = "chemical_cascade" -> "chemical_leak_cascade"
          [] n = "equipment_chain" -> "equipment_failure_chain"]

\* a duration that ignores the intensity
intensity_duration_fixed(intensity) == 5

\* intensity_duration.get(intensity, 5)
intensity_duration(intensity) ==
    CASE intensity = "low" -> 2
      [] intensity = "moderate" -> 5
      [] intensity = "high" -> 8
      [] intensity = "extreme" -> 12
      [] OTHER -> 5

\* inputs of trigger_advanced_scenario
ScenarioInputs ==
    { <<"dust_storm", "low">>, <<"chemical_cascade", "extreme">>,
      <<"equipment_chain", "moderate">>, <<"flood", "high">> }

\* every known scenario and every intensity, and an unknown scenario
AllScenarioInputs == ScenarioInputs \cup { <<"dust_storm", "high">> }

\* inputs of trigger_anomaly called directly
AnomalyInputs ==
    { [type |-> "dust_storm_impact", duration |-> 5, severity |-> "critical"],
      [type |-> "chemical_leak_cascade", duration |-> 2, severity |-> "warning"] }

\* the dictionary may take the key of a new anomaly
AnomalyRoom(anomaly_type) ==
    \/ anomaly_id(anomaly_type, now) \in DOMAIN active_anomalies
    \/ Cardinality(DOMAIN active_anomalies) < MaxAnomalies

\* trigger_advanced_scenario(scenario_type, intensity)
TriggerScenario(inputs) ==
    \E in \in inputs :
        LET scenario_type == in[1]
            intensity == in[2]
        IN  IF scenario_type \in DOMAIN scenarios
            THEN /\ AnomalyRoom(scenarios[scenario_type])
                 /\ new_alerts < MaxNewAlerts
                 /\ active_anomalies' =
                        trigger_anomaly(active_anomalies, scenarios[scenario_type],
                                        intensity_duration(intensity), intensity, now, ticks)
                 /\ alerts_queue' = append_alerts(alerts_queue, "SCENARIO_TRIGGERED", now,
                                                  Len(alert_log) + 1, 1)
                 /\ alert_log' = log_alerts(alert_log, "SCENARIO_TRIGGERED", now, 1)
                 /\ order' = order_alerts(order, 0, 1)
                 /\ new_alerts' = new_alerts + 1
                 /\ last_call' = Call("trigger_advanced_scenario", scenario_type, intensity, 0,
                                      last_call)
                 /\ UNCHANGED <<loopVars, callVars, now, ticks, weather, production,
                                sensor_history, tickVars, agentVars, execVars,
                                current_analysis, stats, collab, assess_raised,
                                tick_invoked, tick_protocol_alerts, stop_signal>>
            ELSE /\ last_call' = Call("trigger_advanced_scenario", scenario_type, intensity, 0,
                                      last_call)
                 /\ UNCHANGED calledVars

\* data_simulator.trigger_anomaly(type, duration, severity) called directly
TriggerAnomaly(inputs) ==
    \E in \in inputs :
        /\ AnomalyRoom(in.type)
        /\ active_anomalies' =
              trigger_anomaly(active_anomalies, in.type, in.duration, in.severity, now, ticks)
        /\ last_call' = Call("trigger_anomaly", in.type, in.severity, in.duration, last_call)
        /\ UNCHANGED <<loopVars, callVars, now, ticks, weather, production,
                       sensor_history, tickVars, agentVars, execVars,
                       current_analysis, stats, alertVars, ghostVars>>

\* ------------------------------------------------------------------------
\* MineEmergencySystem.start_advanced_monitoring: the loop
\* ------------------------------------------------------------------------

\* the except clause of the loop up to its sleep: the tick's locals are dead
EnterBackoff ==
    /\ system_status' = "ERROR"
    /\ pc' = "backoff"

\* the while test holds; cycle_start and get_all_sensor_readings
TickSample(draws) ==
    /\ pc = "check"
    /\ monitoring_active
    /\ ticks < MaxTicks
    /\ ticks' = ticks + 1
    /\ cycle_start' = now
    /\ \E d \in draws :
          /\ weather' = update_weather(weather, d)
          /\ production' = calculate_production_impact(active_anomalies, weather')
          /\ sensor_readings' = get_all_sensor_readings(active_anomalies, weather, d)
    /\ IF \E s \in Sensors : sensor_readings'[s].status = "undefined"
       THEN EnterBackoff
       ELSE pc' = "aggregate" /\ UNCHANGED system_status
    /\ collab' = "none"
    /\ assess_raised' = FALSE
    /\ tick_invoked' = 0
    /\ tick_protocol_alerts' = 0
    /\ UNCHANGED <<monitoring_active, outerVars, now, active_anomalies, sensor_history,
                   zone_status, analysis, agentVars, execVars, current_analysis,
                   stats, alertVars, order, stop_signal>>

\* get_zone_status, the save of the batch through self.db_manager, the
\* context data, and analyze_comprehensive_data up to the await of the
\* collaborator call (the prompt, with _get_enhanced_context, is built
\* before the try block)
TickAggregate(draws) ==
    /\ pc = "aggregate"
    /\ \E d \in draws :
          /\ weather' = update_weather(weather, d)
          /\ zone_status' = get_zone_status(active_anomalies, sensor_history, weather',
                                            production, d)
          /\ sensor_history' = zone_history(sensor_history, weather', production, d)
    /\ IF ~db_manager
       THEN EnterBackoff /\ UNCHANGED assess_raised
       ELSE IF enhanced_context_raises(context_memory)
       THEN EnterBackoff /\ assess_raised' = TRUE
       ELSE pc' = "await_analysis" /\ UNCHANGED <<system_status, assess_raised>>
    /\ UNCHANGED <<monitoring_active, outerVars, now, ticks, production, active_anomalies,
                   sensor_readings, analysis, cycle_start, agentVars, execVars,
                   current_analysis, stats, alertVars, collab, tick_invoked,
                   tick_protocol_alerts, order, stop_signal>>

\* alerts _process_alerts appends for an assessment
alert_count(a) == a.predictive + a.correlations

\* the protocol branch of the tick is taken
protocol_invoked(a) == a.protocol_needed # NoProtocol /\ a.current_level = "EMERGENCY"

\* alerts a collaborator outcome makes the tick append
response_alerts(resp) ==
    IF analysis_parsed(resp) /\ resp.kind = "ok"
    THEN alert_count(resp) + (IF protocol_invoked(resp) THEN 1 ELSE 0)
    ELSE 0

\* _process_alerts: the false-alarm test
possible_false_alarm(a) ==
    a.current_level \in {"CRITICAL", "EMERGENCY"} /\ a.confidence_score < 60

\* the collaborator call completes; the rest of analyze_comprehensive_data,
\* then current_analysis, the analysis counter, _process_alerts and
\* _display_advanced_status
TickAnalysis(responses) ==
    /\ pc = "await_analysis"
    /\ \E resp \in responses :
          /\ new_alerts + response_alerts(resp) <= MaxNewAlerts
          /\ collab' = resp.kind
          /\ analysis' = analyze_result(resp)
          /\ context_memory' = analyze_memory(context_memory, resp)
    /\ current_analysis' = analysis'
    /\ IF analysis'.shape = "bad_shape"
       THEN /\ EnterBackoff
            /\ stats' = [stats EXCEPT !.total_analyses = @ + 1]
            /\ order' = publish(order, ticks)
            /\ UNCHANGED alertVars
       ELSE /\ pc' = "protocols"
            /\ UNCHANGED system_status
            /\ alerts_queue' =
                  append_alerts(
                      append_alerts(alerts_queue, "PREDICTIVE_ALERT", now,
                                    Len(alert_log) + 1, analysis'.predictive),
                      "CORRELATION_ALERT", now,
                      Len(alert_log) + 1 + analysis'.predictive, analysis'.correlations)
            /\ alert_log' =
                  log_alerts(log_alerts(alert_log, "PREDICTIVE_ALERT", now,
                                        analysis'.predictive),
                             "CORRELATION_ALERT", now, analysis'.correlations)
            /\ order' = order_alerts(publish(order, ticks), ticks, alert_count(analysis'))
            /\ new_alerts' = new_alerts + alert_count(analysis')
            /\ stats' = [stats EXCEPT
                            !.total_analyses = @ + 1,
                            !.false_alarms_prevented =
                                IF possible_false_alarm(analysis') THEN @ + 1 ELSE @]
    /\ UNCHANGED <<monitoring_active, outerVars, now, ticks, simVars, sensor_readings,
                   zone_status, cycle_start, active_protocols, successful_interventions,
                   execVars, assess_raised, tick_invoked, tick_protocol_alerts,
                   stop_signal>>

\* the test of the protocol branch and execute_advanced_protocol up to the
\* sleep of its first step; a name that is not in the catalog returns an
\* error at once, and the membership test of an unhashable value raises
\* TypeError outside the try block of execute_advanced_protocol
TickProtocols ==
    /\ pc = "protocols"
    /\ IF protocol_invoked(analysis)
       THEN /\ tick_invoked' = tick_invoked + 1
            /\ IF analysis.protocol_needed = UnhashableProtocol
               THEN /\ EnterBackoff
                    /\ UNCHANGED execVars
               ELSE IF analysis.protocol_needed \in DOMAIN emergency_protocols
               THEN /\ adapted_actions' =
                          adapt_protocol_to_context(analysis.protocol_needed, weather,
                                                    sensor_readings)
                    /\ execution_log' = <<>>
                    /\ exec_i' = 1
                    /\ execution_result' = "none"
                    /\ pc' = "exec_step"
                    /\ UNCHANGED system_status
               ELSE /\ execution_result' = "error"
                    /\ pc' = "exec_returned"
                    /\ UNCHANGED <<system_status, adapted_actions, execution_log, exec_i>>
       ELSE /\ pc' = "sleep"
            /\ UNCHANGED <<system_status, execVars, tick_invoked>>
    /\ UNCHANGED <<monitoring_active, outerVars, now, ticks, simVars,
                   tickVars, agentVars, current_analysis, stats, alertVars, collab,
                   assess_raised, tick_protocol_alerts, order, stop_signal>>

\* a run that gives up after a step whose last entry is a failure
AfterStepUnlessFailed ==
    IF exec_i < Len(adapted_actions) /\ execution_log'[Len(execution_log')].status = "completed"
    THEN pc' = "exec_step" /\ exec_i' = exec_i + 1
    ELSE pc' = "exec_finish" /\ UNCHANGED exec_i

\* a run that executes a failed step again
AfterStepRetryFailed ==
    IF execution_log'[Len(execution_log')].status = "failed"
    THEN pc' = "exec_step" /\ UNCHANGED exec_i
    ELSE IF exec_i < Len(adapted_actions)
    THEN pc' = "exec_step" /\ exec_i' = exec_i + 1
    ELSE pc' = "exec_finish" /\ UNCHANGED exec_i

\* where execute_advanced_protocol goes after the entries of step exec_i
AfterStep ==
    IF exec_i < Len(adapted_actions)
    THEN pc' = "exec_step" /\ exec_i' = exec_i + 1
    ELSE pc' = "exec_finish" /\ UNCHANGED exec_i

\* one step of execute_advanced_protocol: its simulated delay ends, its
\* success is drawn and its entry logged
ExecStepWith(samples) ==
    /\ pc = "exec_step"
    /\ now' = now + step_delay(adapted_actions[exec_i])
    /\ \E u \in samples :
          LET st == adapted_actions[exec_i]
              success == step_succeeds(u, st.success_probability)
          IN  /\ execution_log' = Append(execution_log, log_entry(exec_i, st, success))
              /\ IF ~success /\ st.contingency
                 THEN pc' = "exec_contingency" /\ UNCHANGED exec_i
                 ELSE AfterStep
    /\ UNCHANGED <<monitoring_active, system_status, outerVars, ticks, simVars, tickVars,
                   agentVars, adapted_actions, execution_result, current_analysis, stats,
                   alertVars, ghostVars>>

\* the step under every outcome of its draw
ExecStep == ExecStepWith(RandomSamples)

\* _execute_contingency returns after its delay and its log is appended
ExecContingency ==
    /\ pc = "exec_contingency"
    /\ now' = now + 5
    /\ execution_log' = execution_log \o execute_contingency(adapted_actions[exec_i])
    /\ AfterStep
    /\ UNCHANGED <<monitoring_active, system_status, outerVars, ticks, simVars, tickVars,
                   agentVars, adapted_actions, execution_result, current_analysis, stats,
                   alertVars, ghostVars>>

\* the intervention record of a finished run: the counts its success rate is
\* computed from
intervention_record(log, plan) ==
    [completed |-> completed_count(log), entries |-> Len(log), total_actions |-> Len(plan)]

\* the end of execute_advanced_protocol: the record is appended to
\* active_protocols and, above the threshold, to the learning set; an empty
\* log makes the success rate divide by zero, which the except clause turns
\* into an error result
ExecFinish ==
    /\ pc = "exec_finish"
    /\ IF Len(execution_log) = 0
       THEN /\ execution_result' = "error"
            /\ UNCHANGED <<active_protocols, successful_interventions, order>>
       ELSE /\ execution_result' = "executed"
            /\ order' = order_record(order, ticks)
            /\ active_protocols' =
                  Append(active_protocols, intervention_record(execution_log, adapted_actions))
            /\ successful_interventions' =
                  IF rate_above_threshold(execution_log)
                  THEN Append(successful_interventions,
                              intervention_record(execution_log, adapted_actions))
                  ELSE successful_interventions
    /\ pc' = "exec_returned"
    /\ UNCHANGED <<monitoring_active, system_status, outerVars, now, ticks, simVars,
                   tickVars, context_memory, adapted_actions, execution_log, exec_i,
                   current_analysis, stats, alertVars, collab, assess_raised,
                   tick_invoked, tick_protocol_alerts, stop_signal>>

\* back in the tick: the protocol counter and the PROTOCOL_EXECUTED alert
TickProtocolRecord ==
    /\ pc = "exec_returned"
    /\ stats' = [stats EXCEPT !.protocols_executed = @ + 1]
    /\ alerts_queue' = append_alerts(alerts_queue, "PROTOCOL_EXECUTED", now,
                                     Len(alert_log) + 1, 1)
    /\ alert_log' = log_alerts(alert_log, "PROTOCOL_EXECUTED", now, 1)
    /\ new_alerts' = new_alerts + 1
    /\ tick_protocol_alerts' = tick_protocol_alerts + 1
    /\ order' = order_alerts(order, ticks, 1)
    /\ adapted_actions' = <<>>
    /\ execution_log' = <<>>
    /\ exec_i' = 0
    /\ execution_result' = "none"
    /\ pc' = "sleep"
    /\ UNCHANGED <<monitoring_active, system_status, outerVars, now, ticks, simVars,
                   tickVars, agentVars, current_analysis, collab, assess_raised,
                   tick_invoked, stop_signal>>

\* base_interval, tenths of a second
BaseInterval == 80

\* risk_multiplier.get(current_risk, 1.0), percent
risk_multiplier(level) ==
    CASE level = "NORMAL" -> 100
      [] level = "WARNING" -> 70
      [] level = "CRITICAL" -> 40
      [] level = "EMERGENCY" -> 10
      [] OTHER -> 100

\* interval of the cycle for an assessed level
cycle_interval(level) == (BaseInterval * risk_multiplier(level)) \div 100

\* a wait without the floor of one second
cycle_wait_unfloored(level, cycle_duration) == cycle_interval(level) - cycle_duration

\* max(1, interval - cycle_duration)
cycle_wait(level, cycle_duration) == Max2(10, cycle_interval(level) - cycle_duration)

\* the tick's locals are dropped
DropTick ==
    /\ sensor_readings' = <<>>
    /\ zone_status' = <<>>
    /\ analysis' = NoAnalysis
    /\ cycle_start' = 0

\* the wait of the cycle ends and the loop returns to its test
TickSleep ==
    /\ pc = "sleep"
    /\ now' = now + cycle_wait(analysis.current_level, now - cycle_start)
    /\ DropTick
    /\ pc' = "check"
    /\ UNCHANGED <<monitoring_active, system_status, outerVars, ticks, simVars, agentVars,
                   execVars, current_analysis, stats, alertVars, ghostVars>>

\* a backoff that returns to the test and leaves the status as it is
BackoffKeepsStatus ==
    /\ pc = "backoff"
    /\ now' = now + 50
    /\ DropTick
    /\ pc' = "check"
    /\ UNCHANGED <<monitoring_active, system_status, outerVars, ticks, simVars, agentVars,
                   execVars, current_analysis, stats, alertVars, ghostVars>>

\* the backoff of the except clause ends: status ACTIVE, back to the test
BackoffDone ==
    /\ pc = "backoff"
    /\ now' = now + 50
    /\ system_status' = "ACTIVE"
    /\ DropTick
    /\ pc' = "check"
    /\ UNCHANGED <<monitoring_active, outerVars, ticks, simVars, agentVars, execVars,
                   current_analysis, stats, alertVars, ghostVars>>

\* the while test fails: start_advanced_monitoring returns
LoopExit ==
    /\ pc = "check"
    /\ ~monitoring_active
    /\ pc' = "done"
    /\ UNCHANGED <<monitoring_active, system_status, outerVars, now, ticks, simVars,
                   tickVars, agentVars, execVars, current_analysis, stats, alertVars,
                   ghostVars>>

\* the loop under every collaborator outcome, started and stopped at any
\* point
Next ==
    \/ StartMonitoring
    \/ StopMonitoring
    \/ TickSample(LoopDraws)
    \/ TickAggregate(LoopDraws)
    \/ TickAnalysis(Responses)
    \/ TickProtocols
    \/ ExecStep
    \/ ExecFinish
    \/ TickProtocolRecord
    \/ TickSleep
    \/ BackoffDone
    \/ LoopExit

Spec == Init /\ [][Next]_vars

\* a step of the coroutine of the loop
LoopStep ==
    \/ TickSample(LoopDraws)
    \/ TickAggregate(LoopDraws)
    \/ TickAnalysis(Responses)
    \/ TickProtocols
    \/ ExecStep
    \/ ExecFinish
    \/ TickProtocolRecord
    \/ TickSleep
    \/ BackoffDone
    \/ LoopExit

\* the event loop resumes the coroutine whenever its await can complete
SpecFair == Spec /\ WF_vars(LoopStep)

\* ------------------------------------------------------------------------
\* The simulator under every draw, with anomalies triggered at any point
\* ------------------------------------------------------------------------

NextSim ==
    \/ StartMonitoring
    \/ TriggerScenario(ScenarioInputs)
    \/ TriggerAnomaly(AnomalyInputs)
    \/ TickSample(Draws)
    \/ TickAggregate(Draws)
    \/ TickAnalysis(NormalResponses)
    \/ TickProtocols
    \/ TickSleep
    \/ BackoffDone

SpecSim == Init /\ [][NextSim]_vars

\* ------------------------------------------------------------------------
\* start_advanced_monitoring called while a loop is running
\* ------------------------------------------------------------------------

\* the positions where the coroutine of the loop is suspended in an await:
\* the collaborator call, the sleep of a protocol step or of a contingency,
\* the sleep of the cycle and the sleep of the except clause
AwaitPoints == {"await_analysis", "exec_step", "exec_contingency", "sleep", "backoff"}

\* the positions inside execute_advanced_protocol, before its record is
\* appended and it returns
ExecPositions == {"exec_step", "exec_contingency", "exec_finish"}

\* the locals of the invocation that is running
RunningLoop ==
    LoopLocals(pc, sensor_readings, zone_status, analysis, cycle_start,
               adapted_actions, execution_log, exec_i, execution_result)

\* the invocation whose locals are lp runs
Resume(lp) ==
    /\ pc' = lp.pc
    /\ sensor_readings' = lp.sensor_readings
    /\ zone_status' = lp.zone_status
    /\ analysis' = lp.analysis
    /\ cycle_start' = lp.cycle_start
    /\ adapted_actions' = lp.adapted_actions
    /\ execution_log' = lp.execution_log
    /\ exec_i' = lp.exec_i
    /\ execution_result' = lp.execution_result

\* start_advanced_monitoring called a second time, as a task of the same
\* event loop, while the first invocation is suspended in an await: nothing
\* in the method tests for a running loop, so the new invocation sets the
\* flags and runs up to the first test of its own while loop
StartMonitoringAgain ==
    /\ pc \in AwaitPoints
    /\ parked = NoLoop
    /\ parked' = RunningLoop
    /\ monitoring_active' = TRUE
    /\ system_status' = "ACTIVE"
    /\ Resume(LoopLocals("check", <<>>, <<>>, NoAnalysis, 0, <<>>, <<>>, 0, "none"))
    /\ UNCHANGED <<db_manager, zone_calls, query_result, data_queue, sampled_under, threadVars,
                   last_call, now, ticks, simVars,
                   agentVars, current_analysis, stats, alertVars, ghostVars>>

\* the running invocation is suspended in an await, or has returned, and
\* the event loop resumes the other one
SwitchLoop ==
    /\ parked # NoLoop
    /\ pc \in AwaitPoints \cup {"done"}
    /\ parked.pc # "done"
    /\ parked' = RunningLoop
    /\ Resume(parked)
    /\ UNCHANGED <<monitoring_active, system_status, db_manager, zone_calls, query_result,
                   data_queue, sampled_under, threadVars, last_call, now, ticks, simVars,
                   agentVars, current_analysis, stats,
                   alertVars, ghostVars>>

\* the collaborator outcomes of the runs with two invocations: no risk, and
\* an emergency with a protocol of the catalog
ProtocolResponses ==
    {r \in Responses :
        /\ r.kind = "ok"
        /\ r.predictive + r.correlations = 0
        /\ r.current_level = "NORMAL" \/ r.protocol_needed \in DOMAIN emergency_protocols}

NextTwoLoops ==
    \/ StartMonitoring
    \/ StartMonitoringAgain
    \/ SwitchLoop
    \/ StopMonitoring
    \/ TickSample(LoopDraws)
    \/ TickAggregate(LoopDraws)
    \/ TickAnalysis(ProtocolResponses)
    \/ TickProtocols
    \/ ExecStepWith({0})
    \/ ExecFinish
    \/ TickProtocolRecord
    \/ TickSleep
    \/ BackoffDone
    \/ LoopExit

SpecTwoLoops == Init /\ [][NextTwoLoops]_vars

\* one loop under those outcomes, with the position of the loop kept at each
\* stop
NextStop ==
    \/ StartMonitoring
    \/ StopMonitoringAt
    \/ TickSample(LoopDraws)
    \/ TickAggregate(LoopDraws)
    \/ TickAnalysis(ProtocolResponses)
    \/ TickProtocols
    \/ ExecStepWith({0})
    \/ ExecFinish
    \/ TickProtocolRecord
    \/ TickSleep
    \/ BackoffDone
    \/ LoopExit

SpecStop == Init /\ [][NextStop]_vars

\* the collaborator outcomes of the runs about false alarms: no risk, and an
\* emergency of low confidence that names a protocol of the catalog
FalseAlarmResponses ==
    { Resp("ok", "NORMAL", 95, NoProtocol, 0, 0),
      Resp("ok", "CRITICAL", 50, "chemical_cascade_emergency", 0, 0),
      Resp("ok", "EMERGENCY", 50, "chemical_cascade_emergency", 0, 0) }

\* the loop under those outcomes
NextFalseAlarm ==
    \/ StartMonitoring
    \/ TickSample(LoopDraws)
    \/ TickAggregate(LoopDraws)
    \/ TickAnalysis(FalseAlarmResponses)
    \/ TickProtocols
    \/ ExecStep
    \/ ExecFinish
    \/ TickProtocolRecord
    \/ TickSleep
    \/ BackoffDone

SpecFalseAlarm == Init /\ [][NextFalseAlarm]_vars

\* the collaborator outcomes of the runs about evacuations: no risk, and an
\* emergency that names the protocol with an evacuation step and lists no
\* zone, one zone or two zones of the roster as affected
EvacuationResponses ==
    { Resp("ok", "NORMAL", 95, NoProtocol, 0, 0) } \cup
    { [Resp("ok", "EMERGENCY", 90, "chemical_cascade_emergency", 0, 0)
          EXCEPT !.affected_zones = zs] : zs \in {{}, {"Zone 3"}, {"Zone 1", "Zone 2"}} }

\* the loop under those outcomes, every step of a run succeeding
NextEvacuation ==
    \/ StartMonitoring
    \/ TickSample(LoopDraws)
    \/ TickAggregate(LoopDraws)
    \/ TickAnalysis(EvacuationResponses)
    \/ TickProtocols
    \/ ExecStepWith({0})
    \/ ExecFinish
    \/ TickProtocolRecord
    \/ TickSleep
    \/ BackoffDone

SpecEvacuation == Init /\ [][NextEvacuation]_vars

\* ------------------------------------------------------------------------
\* get_zone_status called from outside the loop
\* ------------------------------------------------------------------------

\* data_simulator.get_zone_status() called directly, as the dashboard does on
\* every refresh; zone_calls keeps what two calls in a row returned
DirectZoneStatus(draws) ==
    /\ Len(zone_calls) < 2
    /\ \E d \in draws :
          /\ weather' = update_weather(weather, d)
          /\ zone_calls' = Append(zone_calls,
                                  get_zone_status(active_anomalies, sensor_history,
                                                  weather', production, d))
          /\ sensor_history' = zone_history(sensor_history, weather', production, d)
    /\ UNCHANGED <<loopVars, db_manager, parked, query_result, data_queue, sampled_under,
                   threadVars,
                   last_call, now, ticks,
                   production, active_anomalies, tickVars, agentVars, execVars,
                   current_analysis, stats, alertVars, ghostVars>>

NextZone == DirectZoneStatus(Draws)

SpecZone == InitSystem(Draws) /\ [][NextZone]_vars

\* ------------------------------------------------------------------------
\* Scenarios and anomalies triggered around a running loop
\* ------------------------------------------------------------------------

\* the system as its constructor leaves it: db_manager is not set, so every
\* tick samples, aggregates and ends in the except clause of the loop
InitTrigger == Init /\ ~db_manager

NextTrigger ==
    \/ StartMonitoring
    \/ TriggerScenario(AllScenarioInputs)
    \/ TriggerAnomaly(AnomalyInputs)
    \/ TickSample(LoopDraws)
    \/ TickAggregate(LoopDraws)
    \/ BackoffDone

SpecTrigger == InitTrigger /\ [][NextTrigger]_vars

\* ------------------------------------------------------------------------
\* The sampling thread and the controls of the dashboard
\* ------------------------------------------------------------------------

\* the pairs of draws of one iteration of the sampling thread
SampleDraws == {d \in Draws : d.off = "none" /\ d.q # 9992}

\* data_queue.get_nowait() above five entries, then put_nowait
QueuePut(q, x) == IF Len(q) > 5 THEN Append(Tail(q), x) ELSE Append(q, x)

\* the dictionary built at lines 152-158
data_snapshot(at, batch, zones, w, p) ==
    [timestamp |-> at, sensor_readings |-> batch, zone_status |-> zones,
     weather |-> w, production |-> p]

\* one iteration of StreamlitMineInterface._monitoring_loop: the entries of
\* the dictionary are evaluated in order, get_all_sensor_readings with the
\* draws d1, then get_zone_status with the draws d2, then the copies of
\* weather and production, and the dictionary is put on the queue
DashboardSample(draws) ==
    /\ Len(data_queue) < MaxSamples
    /\ \E d1, d2 \in draws :
          LET w1 == update_weather(weather, d1)
              p1 == calculate_production_impact(active_anomalies, w1)
              batch == get_all_sensor_readings(active_anomalies, weather, d1)
              w2 == update_weather(w1, d2)
              zones == get_zone_status(active_anomalies, sensor_history, w2, p1, d2)
          IN  /\ weather' = w2
              /\ production' = p1
              /\ sensor_history' = zone_history(sensor_history, w2, p1, d2)
              /\ data_queue' = QueuePut(data_queue, data_snapshot(now, batch, zones, w2, p1))
              /\ sampled_under' = QueuePut(sampled_under, [weather |-> w1, production |-> p1])
    /\ UNCHANGED <<loopVars, db_manager, parked, zone_calls, query_result, last_call, now,
                   threadVars,
                   ticks, active_anomalies, tickVars, agentVars, execVars,
                   current_analysis, stats, alertVars, ghostVars>>

\* the process of the dashboard: its sampling thread and its scenario
\* control; nothing in it starts start_advanced_monitoring
NextDashboard ==
    \/ DashboardSample(SampleDraws)
    \/ TriggerScenario({ <<"dust_storm", "low">>, <<"flood", "high">> })

SpecDashboard == InitTrigger /\ [][NextDashboard]_vars

\* ------------------------------------------------------------------------
\* The threads of one StreamlitMineInterface and its queue
\* ------------------------------------------------------------------------

\* threads one interface has started, and iterations of one thread
MaxThreads == 2
MaxLoops == 4

\* what the sampling threads leave alone
besideThreads == <<loopVars, db_manager, parked, zone_calls, query_result, last_call, now,
                   ticks, active_anomalies, tickVars, agentVars, execVars,
                   current_analysis, stats, alertVars, ghostVars>>

\* a thread at the top of _monitoring_loop, its data_snapshot not yet built
NewThread ==
    [pc |-> "while", loops |-> 0,
     data_snapshot |-> data_snapshot(0, <<>>, <<>>, InitialWeather, InitialProduction),
     under |-> [weather |-> InitialWeather, production |-> InitialProduction]]

\* the threads whose _monitoring_loop has not returned
alive_threads == {t \in 1..Len(monitoring_threads) : monitoring_threads[t].pc # "done"}

\* start_monitoring_thread with mine_system set: a second call while the
\* flag is set does nothing
start_monitoring_thread ==
    /\ ~interface_active
    /\ Len(monitoring_threads) < MaxThreads
    /\ interface_active' = TRUE
    /\ monitoring_threads' = Append(monitoring_threads, NewThread)
    /\ UNCHANGED <<besideThreads, simVars, data_queue, sampled_under>>

\* the stop control of render_control_panel
StopSurveillance ==
    /\ interface_active
    /\ interface_active' = FALSE
    /\ UNCHANGED <<besideThreads, simVars, data_queue, sampled_under, monitoring_threads>>

\* the test of the while loop: the target returns when the flag is clear
ThreadWhile ==
  \E t \in 1..Len(monitoring_threads) :
    /\ monitoring_threads[t].pc = "while"
    /\ interface_active => monitoring_threads[t].loops < MaxLoops
    /\ monitoring_threads' =
          [monitoring_threads EXCEPT ![t].pc = IF interface_active THEN "snapshot" ELSE "done"]
    /\ UNCHANGED <<besideThreads, simVars, data_queue, sampled_under, interface_active>>

\* the dictionary of lines 152-158 is built into the local data_snapshot
ThreadSnapshot(draws) ==
  \E t \in 1..Len(monitoring_threads) :
    /\ monitoring_threads[t].pc = "snapshot"
    /\ \E d1, d2 \in draws :
          LET w1 == update_weather(weather, d1)
              p1 == calculate_production_impact(active_anomalies, w1)
              batch == get_all_sensor_readings(active_anomalies, weather, d1)
              w2 == update_weather(w1, d2)
              zones == get_zone_status(active_anomalies, sensor_history, w2, p1, d2)
          IN  /\ weather' = w2
              /\ production' = p1
              /\ sensor_history' = zone_history(sensor_history, w2, p1, d2)
              /\ monitoring_threads' =
                    [monitoring_threads EXCEPT
                        ![t].pc = "qsize",
                        ![t].loops = @ + 1,
                        ![t].data_snapshot = data_snapshot(now, batch, zones, w2, p1),
                        ![t].under = [weather |-> w1, production |-> p1]]
    /\ UNCHANGED <<besideThreads, active_anomalies, data_queue, sampled_under,
                   interface_active>>

\* if self.data_queue.qsize() > 5
ThreadQsize ==
  \E t \in 1..Len(monitoring_threads) :
    /\ monitoring_threads[t].pc = "qsize"
    /\ monitoring_threads' =
          [monitoring_threads EXCEPT ![t].pc = IF Len(data_queue) > 5 THEN "get" ELSE "put"]
    /\ UNCHANGED <<besideThreads, simVars, data_queue, sampled_under, interface_active>>

\* self.data_queue.get_nowait(): queue.Empty is not queue.Full, it leaves
\* the loop through the handler of line 169
ThreadGet ==
  \E t \in 1..Len(monitoring_threads) :
    /\ monitoring_threads[t].pc = "get"
    /\ IF data_queue = <<>>
          THEN /\ monitoring_threads' = [monitoring_threads EXCEPT ![t].pc = "done"]
               /\ UNCHANGED <<data_queue, sampled_under>>
          ELSE /\ monitoring_threads' = [monitoring_threads EXCEPT ![t].pc = "put"]
               /\ data_queue' = Tail(data_queue)
               /\ sampled_under' = Tail(sampled_under)
    /\ UNCHANGED <<besideThreads, simVars, interface_active>>

\* self.data_queue.put_nowait(data_snapshot) on the unbounded queue.Queue()
ThreadPut ==
  \E t \in 1..Len(monitoring_threads) :
    /\ monitoring_threads[t].pc = "put"
    /\ data_queue' = Append(data_queue, monitoring_threads[t].data_snapshot)
    /\ sampled_under' = Append(sampled_under, monitoring_threads[t].under)
    /\ monitoring_threads' = [monitoring_threads EXCEPT ![t].pc = "sleep"]
    /\ UNCHANGED <<besideThreads, simVars, interface_active>>

\* time.sleep(0.5) returns
ThreadWake ==
  \E t \in 1..Len(monitoring_threads) :
    /\ monitoring_threads[t].pc = "sleep"
    /\ monitoring_threads' = [monitoring_threads EXCEPT ![t].pc = "while"]
    /\ UNCHANGED <<besideThreads, simVars, data_queue, sampled_under, interface_active>>

\* update_session_data: up to max_updates entries are taken from the queue
update_session_data ==
    /\ \E k \in 1..Min2(5, Len(data_queue)) :
          /\ data_queue' = SubSeq(data_queue, k + 1, Len(data_queue))
          /\ sampled_under' = SubSeq(sampled_under, k + 1, Len(sampled_under))
    /\ UNCHANGED <<besideThreads, simVars, threadVars>>

NextThreads ==
    \/ start_monitoring_thread
    \/ StopSurveillance
    \/ ThreadWhile
    \/ ThreadSnapshot(LoopDraws)
    \/ ThreadQsize
    \/ ThreadGet
    \/ ThreadPut
    \/ ThreadWake
    \/ update_session_data

SpecThreads == InitTrigger /\ [][NextThreads]_vars

\* ------------------------------------------------------------------------
\* The alert buffer near its capacity
\* ------------------------------------------------------------------------

\* calls of trigger_advanced_scenario("dust_storm", "low") made within the
\* first second, before the loop is started
Prefills == {0, AlertCapacity - 1, AlertCapacity}

\* the state those calls leave
InitAlerts ==
    /\ InitCommon(LoopDraws)
    /\ InitIdle
    /\ \E n \in Prefills :
          /\ alerts_queue = [i \in 1..n |-> Alert("SCENARIO_TRIGGERED", 0, i)]
          /\ alert_log = alerts_queue
          /\ order = order_alerts(NoOrder, 0, n)
          /\ active_anomalies =
                IF n = 0 THEN <<>>
                ELSE trigger_anomaly(<<>>, scenarios["dust_storm"],
                                     intensity_duration("low"), "low", 0, 0)

\* arguments of get_alerts_history: a cutoff in the future, the cutoff now,
\* the default of one day
QueryHours == {-1, 0, 24}

\* get_alerts_history(hours) called from outside the loop
QueryAlerts(hours_given) ==
    /\ \E h \in hours_given :
          query_result' = [called |-> TRUE, hours |-> h,
                           alerts |-> get_alerts_history(alerts_queue, now, h)]
    /\ UNCHANGED <<loopVars, db_manager, parked, zone_calls, data_queue, sampled_under, threadVars,
                   last_call, now, ticks, simVars,
                   tickVars, agentVars, execVars, current_analysis, stats, alertVars,
                   ghostVars>>

\* the alert history queried around a running loop
NextQuery ==
    \/ StartMonitoring
    \/ TriggerScenario({ <<"dust_storm", "low">> })
    \/ QueryAlerts(QueryHours)
    \/ TickSample(LoopDraws)
    \/ TickAggregate(LoopDraws)
    \/ TickAnalysis(AlertResponses)
    \/ TickProtocols
    \/ TickProtocolRecord
    \/ TickSleep
    \/ BackoffDone

SpecQuery == Init /\ [][NextQuery]_vars

NextAlerts ==
    \/ StartMonitoring
    \/ TriggerScenario(ScenarioInputs)
    \/ TickSample(LoopDraws)
    \/ TickAggregate(LoopDraws)
    \/ TickAnalysis(AlertResponses)
    \/ TickProtocols
    \/ TickProtocolRecord
    \/ TickSleep
    \/ BackoffDone

SpecAlerts == InitAlerts /\ [][NextAlerts]_vars

\* ------------------------------------------------------------------------
\* The run loop of execute_advanced_protocol on any adapted plan
\* ------------------------------------------------------------------------

\* success probabilities of a step (percent)
PlanProbabilities == {0, 50, 95, 100}

\* a step with the contingency _adapt_protocol_to_context attaches to it
PlanStep(p) == Step("other", 30, 2, 0, p, p < 90)

\* the plans of at most MaxSteps steps
Plans ==
    UNION { [1..n -> {PlanStep(p) : p \in PlanProbabilities}] : n \in 1..MaxSteps }

\* execute_advanced_protocol entered with a plan, before its first step
InitRun ==
    /\ InitCommon(LoopDraws)
    /\ active_anomalies = <<>>
    /\ alerts_queue = <<>>
    /\ alert_log = <<>>
    /\ order = NoOrder
    /\ pc = "exec_step"
    /\ adapted_actions \in Plans
    /\ execution_log = <<>>
    /\ exec_i = 1
    /\ execution_result = "none"

NextRun ==
    \/ ExecStep
    \/ ExecContingency
    \/ ExecFinish

SpecRun == InitRun /\ [][NextRun]_vars

\* ------------------------------------------------------------------------
\* _estimate_intervention_cost on the adapted lists of input protocols
\* ------------------------------------------------------------------------

\* the equipment list of an adapted step: only a ventilation step under low
\* wind gets an item
equipment_items(st) == IF st.equipment = 1 THEN <<"Ventilateurs industriels">> ELSE <<>>

\* sum of a list of numbers
RECURSIVE SumSteps(_)
SumSteps(values) ==
    IF values = <<>> THEN 0 ELSE Head(values) + SumSteps(Tail(values))

\* the minutes, and the person-minutes, of the steps of a list
step_minutes(actions) == [i \in 1..Len(actions) |-> actions[i].estimated_time]
step_person_minutes(actions) ==
    [i \in 1..Len(actions) |-> actions[i].personnel_needed * actions[i].estimated_time]

\* _estimate_intervention_cost, in cents: 0.5 per person and minute, 500 per
\* entry of the equipment lists, 1500 per hour of the steps
estimate_intervention_cost(actions) ==
    [personnel_cost |-> SumSteps(step_person_minutes(actions)) * 50,
     equipment_cost |->
         SumSteps([i \in 1..Len(actions) |-> Len(equipment_items(actions[i]))]) * 50000,
     production_loss |-> (150000 * SumSteps(step_minutes(actions))) \div 60]

\* keywords of the required actions of an input protocol
ActionKinds == {"other", "ventilation", "evacuation"}

\* execute_advanced_protocol entered with a protocol of at most MaxSteps
\* required actions, adapted under the weather of the state
InitCost ==
    /\ InitCommon(Draws)
    /\ active_anomalies = <<>>
    /\ alerts_queue = <<>>
    /\ alert_log = <<>>
    /\ order = NoOrder
    /\ pc = "exec_step"
    /\ \E n \in 1..MaxSteps : \E kinds \in [1..n -> ActionKinds] :
          adapted_actions =
              [i \in 1..n |-> adapt_action(kinds[i], weather.wind_speed, 0, 0)]
    /\ execution_log = <<>>
    /\ exec_i = 1
    /\ execution_result = "none"

NextCost ==
    \/ ExecStepWith({0})
    \/ ExecFinish

SpecCost == InitCost /\ [][NextCost]_vars

\* ------------------------------------------------------------------------
\* Properties
\* ------------------------------------------------------------------------

\* C1: in every reachable state the alert buffer holds at most 50 entries,
\* and they are exactly the min(n, 50) most recently appended of the n alerts
\* appended so far (scenario records, predictive and correlation alerts,
\* protocol records), unchanged and in their order of insertion; once more
\* than 50 alerts were appended the first one is gone and the newest is
\* the last entry.
C1_BufferHoldsNewest ==
    /\ Len(alerts_queue) <= 50
    /\ alerts_queue = LastN(alert_log, Min2(Len(alert_log), 50))
    /\ Len(alert_log) > 50 =>
          /\ \A i \in 1..Len(alerts_queue) : alerts_queue[i] # alert_log[1]
          /\ alerts_queue[Len(alerts_queue)] = alert_log[Len(alert_log)]

\* a tick appended to a full buffer: the capacity was exceeded by an alert
\* of the loop
C1_Overflowed ==
    /\ Len(alert_log) = AlertCapacity + 1
    /\ alert_log[Len(alert_log)].type \in {"PROTOCOL_EXECUTED", "CORRELATION_ALERT"}
    /\ alerts_queue[1].type = "SCENARIO_TRIGGERED"

\* C2: once the loop has terminated after a call of stop_monitoring the
\* system status is STOPPED (it is neither ACTIVE nor ERROR).
C2_TerminatedIsStopped == pc = "done" => system_status = "STOPPED"

\* C3: from every state with status ERROR a state with status ACTIVE is
\* eventually reached, and the step that ends the backoff of a faulted tick
\* returns to the test of the loop: a fault does not terminate the loop.
C3_ErrorRecovers ==
    /\ (system_status = "ERROR") ~> (system_status = "ACTIVE")
    /\ [][pc = "backoff" => pc' \in {"backoff", "check"}]_vars

\* the first tick faulted before its analysis and the loop is back at its
\* test with status ACTIVE
C3_Recovered ==
    /\ pc = "check"
    /\ ticks = 1
    /\ stats.total_analyses = 0
    /\ monitoring_active
    /\ system_status = "ACTIVE"

\* C4: an anomaly triggered with duration d is removed once d ticks of the
\* loop have run after its trigger: whenever the loop is back at its test
\* and every tick so far ran to its end, no anomaly of the active set has
\* seen as many ticks as its duration.
C4_AnomalyExpires ==
    (pc = "check" /\ stats.total_analyses = ticks) =>
        \A a \in DOMAIN active_anomalies :
            ticks - active_anomalies[a].born < active_anomalies[a].duration

\* C5: a batch sampled while the anomaly ("dust_storm_impact", 5,
\* "critical") triggered before it is active holds a reading for every
\* configured sensor, and its reading of every dust sensor is CRITICAL with
\* a value between 200 and 400.
C5_DustStormBatch ==
    (/\ pc = "aggregate"
     /\ \E a \in DOMAIN active_anomalies :
           /\ active_anomalies[a].type = "dust_storm_impact"
           /\ active_anomalies[a].duration = 5
           /\ active_anomalies[a].severity = "critical"
           /\ active_anomalies[a].born < ticks) =>
        /\ DOMAIN sensor_readings = Sensors
        /\ \A s \in Sensors :
              sensors_config[s].type = "dust" =>
                  /\ sensor_readings[s].status = "critical"
                  /\ sensor_readings[s].value >= 20000
                  /\ sensor_readings[s].value <= 40000

\* the status of a reading is the one its reported value (hundredths) gives
\* against the thresholds of its sensor (thousandths)
ReportedStatusAgrees(rd) ==
    LET cfg == sensors_config[rd.sensor_id]
    IN  rd.status # "offline" =>
            /\ rd.status = "critical" <=> rd.value * 10 >= cfg.critical_threshold
            /\ rd.status = "warning" <=>
                  (rd.value * 1000 >= cfg.max * 85 /\ rd.value * 10 < cfg.critical_threshold)

\* C6: every reading of the batch of a tick and every reading kept in a
\* sensor history that is not OFFLINE is CRITICAL exactly when its reported
\* two-decimal value is at or above the critical threshold, and WARNING
\* exactly when that value is at or above 0.85 x max and below the critical
\* threshold.
C6_StatusOfReportedValue ==
    /\ \A s \in DOMAIN sensor_readings : ReportedStatusAgrees(sensor_readings[s])
    /\ \A s \in Sensors : \A i \in 1..Len(sensor_history[s]) :
          ReportedStatusAgrees(sensor_history[s][i])

\* C7: when a tick hands its batch and its zone status to the analysis, the
\* status computed for every zone is the one the batch gives by the
\* precedence CRITICAL, WARNING, DEGRADED (an OFFLINE reading), NORMAL.
C7_ZoneStatusOfBatch ==
    pc = "await_analysis" =>
        \A z \in DOMAIN zone_status :
            zone_status[z].status =
                overall_status({sensor_readings[s].status : s \in zone_sensors(z)})

\* C8: the executor is invoked in a tick exactly when the assessment of the
\* tick names a protocol and has level EMERGENCY, and once an invocation has
\* ended the tick has recorded one PROTOCOL_EXECUTED alert for it; a tick
\* without an invocation records none.
C8_ProtocolBranch ==
    /\ tick_protocol_alerts <= tick_invoked
    /\ pc = "sleep" =>
          (tick_invoked = 1 <=>
              (analysis.protocol_needed # NoProtocol /\ analysis.current_level = "EMERGENCY"))
    /\ pc \in {"sleep", "backoff", "check"} => tick_protocol_alerts = tick_invoked

\* C9: when the collaborator raised or returned content that is not JSON of
\* the expected shape, the assessment returned is the fallback (level
\* UNKNOWN, confidence 0), and analyze_comprehensive_data never raises into
\* the loop.
C9_DegradedOnFailure ==
    /\ ~assess_raised
    /\ (collab \in {"raise", "invalid_json", "not_object", "bad_shape"}
            /\ analysis.shape # "none") =>
          analysis = DegradedAnalysis

\* C10: a run whose steps all have success probability 1.0 ends with a
\* success rate of 1.0 (as many completed entries as entries), a log of as
\* many entries as steps and no contingency entry.
C10_AllSuccessRun ==
    (pc = "exec_returned"
        /\ \A i \in 1..Len(adapted_actions) : adapted_actions[i].success_probability = 100) =>
        /\ execution_result = "executed"
        /\ active_protocols[Len(active_protocols)].completed =
              active_protocols[Len(active_protocols)].entries
        /\ Len(execution_log) = Len(adapted_actions)
        /\ \A j \in 1..Len(execution_log) : ~execution_log[j].contingency

\* a run of a plan of several steps of probability 1.0 has returned
C10_RunReturned ==
    /\ pc = "exec_returned"
    /\ Len(adapted_actions) >= 2
    /\ \A i \in 1..Len(adapted_actions) : adapted_actions[i].success_probability = 100

\* C11: in the log of a run, a contingency entry stands only right after
\* the entry of a failed step that carries a contingency, and such an entry
\* is followed by exactly one contingency entry (or the contingency is the
\* very next thing the run does); the entry of a failed step without a
\* contingency is not followed by a contingency entry.
C11_ContingencyEntry ==
    \A j \in 1..Len(execution_log) :
        LET e == execution_log[j]
        IN  /\ e.contingency =>
                  /\ j > 1
                  /\ ~execution_log[j - 1].contingency
                  /\ execution_log[j - 1].status = "failed"
                  /\ adapted_actions[execution_log[j - 1].step].contingency
            /\ (~e.contingency /\ e.status = "failed") =>
                  IF adapted_actions[e.step].contingency
                  THEN IF j < Len(execution_log)
                       THEN execution_log[j + 1].contingency
                       ELSE pc = "exec_contingency"
                  ELSE j < Len(execution_log) => ~execution_log[j + 1].contingency

\* a run has returned whose log holds a contingency entry between the
\* entries of two steps
C11_ContingencyRan ==
    /\ pc = "exec_returned"
    /\ \E j \in 2..(Len(execution_log) - 1) :
          execution_log[j].contingency /\ ~execution_log[j + 1].contingency

\* severities calculate_production_impact tells apart, and one it ignores
ImpactSeverities == {"critical", "warning", "low"}

\* the weather with the wind and visibility conditions of the function
ImpactWeathers ==
    { [weather EXCEPT !.wind_speed = ws, !.visibility = v] :
          ws \in {weather.wind_speed, 130}, v \in {weather.visibility, 10} }

\* the anomalies with one more, of a severity, under an unused id
WithAnomaly(anoms, sev) ==
    trigger_anomaly(anoms, "added", 1, sev, now + 10, ticks)

\* C12: for the anomalies held and any weather kept constant, the factor
\* calculate_production_impact returns does not increase when an anomaly of
\* any severity is added or when a warning anomaly is raised to critical; an
\* added critical anomaly multiplies it by 0.7 and an added warning anomaly
\* by 0.9 (up to the last fixed-point digit); and every sampling stores the
\* production computed from 1.0 for the anomalies active at that moment,
\* whatever the production stored by earlier ticks.
C12_ImpactMonotone ==
    /\ [](\A w \in ImpactWeathers :
            LET f  == impact_factor(active_anomalies, w)
                fc == impact_factor(WithAnomaly(active_anomalies, "critical"), w)
                fw == impact_factor(WithAnomaly(active_anomalies, "warning"), w)
            IN  /\ \A sev \in ImpactSeverities :
                       impact_factor(WithAnomaly(active_anomalies, sev), w) <= f
                /\ fc <= fw
                /\ 10 * fc - 7 * f \in -9..6
                /\ 10 * fw - 9 * f \in -9..8
                /\ impact_factor(<<>>, InitialWeather) = 10000)
    /\ [][ticks' = ticks + 1 =>
             production'.hourly_production = 150 * impact_factor(active_anomalies, weather')]_vars

\* C12: a sampling has stored a reduced production while a critical
\* anomaly is active
C12_CriticalSampled ==
    /\ ticks = MaxTicks
    /\ SeverityCount(active_anomalies, "critical") = 1
    /\ production.hourly_production = 150 * 7000

\* the assessed levels by increasing risk
RiskRank(level) ==
    CASE level = "NORMAL" -> 1
      [] level = "WARNING" -> 2
      [] level = "CRITICAL" -> 3
      [] level = "EMERGENCY" -> 4

\* the levels that have a multiplier of their own
RiskLevels == {"NORMAL", "WARNING", "CRITICAL", "EMERGENCY"}

C14_ZoneStatusIdempotent ==
    Len(zone_calls) = 2 => zone_calls[1] = zone_calls[2]

\* the anomaly type the specification gives for a scenario name
ScenarioAnomaly(name) ==
    CASE name = "dust_storm" -> "dust_storm_impact"
      [] name = "chemical_cascade" -> "chemical_leak_cascade"
      [] name = "equipment_chain" -> "equipment_failure_chain"

\* the duration the specification gives for an intensity
IntensityCycles(label) ==
    CASE label = "low" -> 2
      [] label = "moderate" -> 5
      [] label = "high" -> 8
      [] label = "extreme" -> 12

\* C15: a call of trigger_advanced_scenario with dust_storm,
\* chemical_cascade or equipment_chain leaves, under the id of its anomaly
\* type, an anomaly lasting 2, 5, 8 or 12 cycles for low, moderate, high or
\* extreme, touches no other anomaly, and appends exactly one alert, of type
\* SCENARIO_TRIGGERED, to the buffer; a call with any other name leaves the
\* anomalies and the buffer as they were.
C15_ScenarioTrigger ==
    [][(last_call' # last_call /\ last_call'.op = "trigger_advanced_scenario") =>
          IF last_call'.name \in {"dust_storm", "chemical_cascade", "equipment_chain"}
          THEN LET id == anomaly_id(ScenarioAnomaly(last_call'.name), now)
               IN  /\ DOMAIN active_anomalies' = DOMAIN active_anomalies \cup {id}
                   /\ active_anomalies'[id].type = ScenarioAnomaly(last_call'.name)
                   /\ active_anomalies'[id].duration = IntensityCycles(last_call'.label)
                   /\ \A a \in DOMAIN active_anomalies \ {id} :
                          active_anomalies'[a] = active_anomalies[a]
                   /\ Len(alert_log') = Len(alert_log) + 1
                   /\ alert_log'[Len(alert_log')].type = "SCENARIO_TRIGGERED"
                   /\ alerts_queue' =
                          DequeAppend(alerts_queue, alert_log'[Len(alert_log')], AlertCapacity)
          ELSE /\ active_anomalies' = active_anomalies
               /\ alerts_queue' = alerts_queue
               /\ alert_log' = alert_log]_vars

\* C15: an unknown scenario was requested after a known one of intensity
\* extreme; the anomaly of 12 cycles and its alert are in place
C15_UnknownAfterKnown ==
    /\ last_call.op = "trigger_advanced_scenario"
    /\ last_call.name = "flood"
    /\ Len(alerts_queue) = 1
    /\ alerts_queue[1].type = "SCENARIO_TRIGGERED"
    /\ \E a \in DOMAIN active_anomalies : active_anomalies[a].duration = 12

C17_OneExecutionAtATime ==
    ~(pc \in ExecPositions /\ parked.pc \in ExecPositions)

\* C18: every tick the loop has started and ended has classified the risk
\* once, so that at the end of a tick the count of analyses equals the
\* number of ticks started, and no tick in which the collaborator call
\* returned ends in the except clause of the loop.
C18_TickRunsToEnd ==
    /\ pc \in {"sleep", "backoff"} => stats.total_analyses = ticks
    /\ pc = "backoff" => collab = "none"

\* C19: every call of trigger_anomaly adds one entry under an id the
\* dictionary did not hold, leaves every entry it held as it was, and
\* changes no reading, history, weather or production value.
C19_FreshEntry ==
    [][(last_call' # last_call /\ last_call'.op = "trigger_anomaly") =>
          /\ Cardinality(DOMAIN active_anomalies') = Cardinality(DOMAIN active_anomalies) + 1
          /\ \A a \in DOMAIN active_anomalies :
                 a \in DOMAIN active_anomalies' /\ active_anomalies'[a] = active_anomalies[a]
          /\ UNCHANGED <<sensor_readings, sensor_history, weather, production>>]_vars

\* C20: the counter of executed protocols equals the number of records in
\* the execution history whenever the loop is between two protocol calls,
\* and no more PROTOCOL_EXECUTED alerts were appended than there are
\* records.
C20_CountedIsRecorded ==
    pc \in {"check", "sleep", "backoff", "done"} =>
        /\ stats.protocols_executed = Len(active_protocols)
        /\ Cardinality({i \in 1..Len(alert_log) : alert_log[i].type = "PROTOCOL_EXECUTED"})
               <= Len(active_protocols)

\* C21: while no anomaly is active, no reading of the batch of a tick and no
\* reading kept in a sensor history whose value lies inside the normal range
\* (min, max) of its sensor is CRITICAL.
C21_InRangeNotCritical ==
    active_anomalies = <<>> =>
        /\ \A s \in DOMAIN sensor_readings :
              LET rd == sensor_readings[s]
              IN  (rd.value * 10 >= sensors_config[s].min /\ rd.value * 10 <= sensors_config[s].max)
                      => rd.status # "critical"
        /\ \A s \in Sensors : \A i \in 1..Len(sensor_history[s]) :
              LET rd == sensor_history[s][i]
              IN  (rd.value * 10 >= sensors_config[s].min /\ rd.value * 10 <= sensors_config[s].max)
                      => rd.status # "critical"

\* C22: no sensor history holds more than 100 entries, and right after
\* get_all_sensor_readings has returned the batch of a tick, the newest
\* entry of every sensor's history is the reading the batch holds for it.
C22_BatchIsNewestEntry ==
    /\ \A s \in Sensors : Len(sensor_history[s]) <= HistoryCapacity
    /\ pc = "aggregate" =>
          \A s \in Sensors :
              /\ Len(sensor_history[s]) > 0
              /\ sensor_history[s][Len(sensor_history[s])] = sensor_readings[s]

\* the entries of a log that were made for the steps themselves
StepEntries(log) == SelectSeq(log, LAMBDA e : ~e.contingency)

\* C23: at every point of a protocol run the entries logged for steps carry
\* the numbers 1, 2, ... in this order, one entry per step reached, whatever
\* the draws; and when the run has gone through its list there is one entry
\* for every step of the adapted action list, the steps after a failed one
\* included.
C23_EveryStepLogged ==
    LET entries == StepEntries(execution_log)
    IN  /\ \A k \in 1..Len(entries) : entries[k].step = k
        /\ Len(entries) <= Len(adapted_actions)
        /\ pc = "exec_step" => Len(entries) = exec_i - 1
        /\ pc \in {"exec_finish", "exec_returned"} => Len(entries) = Len(adapted_actions)

\* C23: a run of MaxSteps steps has returned whose first step failed without
\* a contingency and whose last step completed
C23_FailedThenCompleted ==
    /\ pc = "exec_returned"
    /\ Len(adapted_actions) = MaxSteps
    /\ Len(execution_log) = MaxSteps
    /\ execution_log[1].status = "failed"
    /\ execution_log[MaxSteps].status = "completed"

alert_tick(a) == order.alerts[a.id]

C27_OnlyTickPathWrites ==
    [][(data_queue' # data_queue \/ last_call' # last_call)
          => UNCHANGED <<sensor_history, alerts_queue, active_anomalies>>]_vars

\* C28: every snapshot on the queue carries the weather and the production
\* its readings were generated under
C28_SnapshotOfOneSample ==
    /\ Len(sampled_under) = Len(data_queue)
    /\ \A i \in 1..Len(data_queue) :
          /\ data_queue[i].weather = sampled_under[i].weather
          /\ data_queue[i].production = sampled_under[i].production

\* C29: after a stop signal given during the sleep of the cycle, the delay
\* of a protocol step or the backoff, the loop is still running only within
\* one second of the signal, and the execution log gets no further entry
C29_StopInterruptsWait ==
    (~monitoring_active /\ stop_signal.wait # "none") =>
        /\ pc # "done" => now <= stop_signal.at + 10
        /\ pc \in ExecPositions => Len(execution_log) <= stop_signal.steps

\* C30: a call of get_zone_status leaves the weather, the production
\* metrics, every sensor history and the active anomalies as they were
C30_ZoneStatusReadOnly ==
    [][zone_calls' # zone_calls
          => UNCHANGED <<weather, production, sensor_history, active_anomalies>>]_vars

\* C31: the anomaly count get_zone_status reports for a zone is the number
\* of active anomalies that affect a sensor of that zone
C31_ZoneAnomalyCount ==
    [][(pc = "aggregate" /\ pc' # pc) =>
          \A z \in RosterZones :
              zone_status'[z].active_anomalies =
                  Cardinality({a \in DOMAIN active_anomalies :
                                  z \in anomaly_zones(active_anomalies[a].type)})]_vars

\* C32: the memory of the agent holds at most 20 assessments, and every
\* return of analyze_comprehensive_data, with the assessment of the
\* collaborator or with the degraded one, has appended the returned
\* assessment once, evicting the oldest entry of a full memory
C32_EveryReturnRemembered ==
    /\ [](Len(context_memory) <= MemoryCapacity)
    /\ [][(pc = "await_analysis" /\ pc' # pc) =>
             context_memory' =
                 DequeAppend(context_memory,
                             [shape |-> analysis'.shape,
                              current_level |-> analysis'.current_level],
                             MemoryCapacity)]_vars

\* the active anomalies but for the one of key a
WithoutAnomaly(anoms, a) == [b \in DOMAIN anoms \ {a} |-> anoms[b]]

\* C33: every active anomaly has the severity critical or warning, and the
\* impact factor with it is below the factor without it
C33_SeverityRecognised ==
    \A a \in DOMAIN active_anomalies :
        /\ active_anomalies[a].severity \in {"critical", "warning"}
        /\ impact_factor(active_anomalies, weather)
               < impact_factor(WithoutAnomaly(active_anomalies, a), weather)

\* C34: in a tick whose assessment is a possible false alarm (CRITICAL or
\* EMERGENCY with a confidence below 0.6) the executor is not invoked and no
\* protocol step is logged
C34_FalseAlarmRunsNothing ==
    possible_false_alarm(analysis) =>
        /\ tick_invoked = 0
        /\ pc \notin ExecPositions
        /\ execution_log = <<>>

\* total personnel_count of the roster zones among a set of zones
RECURSIVE headcount(_)
headcount(zs) ==
    IF zs = {} THEN 0
    ELSE LET z == CHOOSE x \in zs : TRUE
         IN  (IF z \in RosterZones THEN personnel_data[z] ELSE 0) + headcount(zs \ {z})

\* C35: the adapted list of a protocol run by the loop has one step per
\* required action of the protocol, in catalog order, and its evacuation
\* step needs max(3, H div 4) persons, H the headcount of the zones the
\* assessment of the tick lists as affected, and takes 45 instead of 30 when
\* the wind speed is above 10
C35_EvacuationScaled ==
    adapted_actions # <<>> =>
        LET required == emergency_protocols[analysis.protocol_needed]
        IN  /\ Len(adapted_actions) = Len(required)
            /\ \A i \in 1..Len(required) :
                  /\ adapted_actions[i].action = required[i]
                  /\ required[i] = "evacuation" =>
                        /\ adapted_actions[i].personnel_needed =
                               Max2(3, headcount(analysis.affected_zones) \div 4)
                        /\ adapted_actions[i].estimated_time =
                               IF weather.wind_speed > 100 THEN 45 ELSE 30

\* q extends p or equals it
IsPrefix(p, q) == Len(p) <= Len(q) /\ SubSeq(q, 1, Len(p)) = p

\* C36: a run of a catalog protocol started by the loop is entered adapted,
\* executes each of its steps once and in order, always reaches its end with
\* every step completed or some failed, appends its record there and only
\* there, and after that logs no further step; no record of the history is
\* changed or removed afterwards
C36_RunOnceToTerminal ==
    /\ (pc = "exec_step") ~> (pc = "exec_returned" /\ execution_result = "executed")
    /\ [][/\ pc' = "exec_step" =>
                \/ pc = "protocols" /\ exec_i' = 1 /\ execution_log' = <<>>
                \/ pc = "exec_step" /\ exec_i' = exec_i + 1
                \/ pc = "exec_step" /\ UNCHANGED <<exec_i, execution_log>>
          /\ pc = "exec_step" => pc' \in {"exec_step", "exec_finish"}
          /\ pc = "exec_finish" => pc' \in {"exec_finish", "exec_returned"}
          /\ (pc = "exec_returned" /\ execution_result = "executed") =>
                /\ pc' \in {"exec_returned", "sleep"}
                /\ execution_log' \in {execution_log, <<>>}
          /\ pc = "exec_finish" => execution_log' = execution_log
          /\ IsPrefix(active_protocols, active_protocols')
          /\ active_protocols' # active_protocols =>
                /\ pc = "exec_finish" /\ pc' = "exec_returned"
                /\ active_protocols' =
                       Append(active_protocols,
                              intervention_record(execution_log, adapted_actions))
                /\ Len(execution_log) = Len(adapted_actions)]_vars

\* a run of the loop has ended with a failed step and its record is in the
\* history
C36_PartiallyFailed ==
    /\ pc = "exec_returned"
    /\ execution_result = "executed"
    /\ \E i \in 1..Len(execution_log) : execution_log[i].status = "failed"
    /\ \E i \in 1..Len(execution_log) : execution_log[i].status = "completed"
    /\ Len(active_protocols) = 1

\* C37: the map get_zone_status returned in a tick has an entry for the
\* zone of every configured sensor, so for the zone of every reading of the
\* tick's batch
C37_EverySensorZoneReported ==
    zone_status # <<>> =>
        /\ \A s \in Sensors : sensors_config[s].zone \in DOMAIN zone_status
        /\ \A s \in DOMAIN sensor_readings : sensors_config[s].zone \in DOMAIN zone_status

\* the strings that occur in the equipment lists of a list of steps
distinct_equipment(actions) ==
    UNION { {equipment_items(actions[i])[j] : j \in 1..Len(equipment_items(actions[i]))} :
            i \in 1..Len(actions) }

C39_OneThreadSixSnapshots ==
    /\ Cardinality(alive_threads) <= 1
    /\ Len(data_queue) <= 6

====
